---- MODULE Spec2Model ----
(***************************************************************************)
(* Model of the energy-forecast utilities: utils/data_utils.py             *)
(* (create_features, split_train_test, clean_train_data) and               *)
(* utils/model_utils.py (get_MAPE).                                        *)
(*                                                                         *)
(* Timestamps are whole hours since 1970-01-01 00:00 (the pandas epoch at  *)
(* hour resolution).  Observed values are fixed-point numbers held in      *)
(* multiples of 1/Unit, so that the mean of the two middle values of an    *)
(* even window and the linearly interpolated quartiles are exact.  A table *)
(* (DataFrame) is a function from column names to columns, every column a  *)
(* sequence with one entry per row.  Tables live on a heap of objects, so  *)
(* that a copy and an alias are different things.                          *)
(***************************************************************************)
EXTENDS Integers, Sequences, FiniteSets, TLC

VARIABLES heap, op, pc, df, snapshot, args, ret, calls, locals

vars == <<heap, op, pc, df, snapshot, args, ret, calls, locals>>

(***************************************************************************)
(* Bounds of the model.                                                    *)
(***************************************************************************)
\* The longest series a caller passes.
MaxLen == 4

\* The most (actual, predicted) pairs a set passed to get_MAPE holds.
MaxPairs == 2

(***************************************************************************)
(* Values.                                                                 *)
(***************************************************************************)
\* One whole unit of the observed value, in the fixed-point representation.
Unit == 4 * 4

\* np.nan: the missing value of a float column.
NaN == -1000000

\* The observed values of the model: three levels.
Values == {0, Unit, 2 * Unit}

Abs(x) == IF x < 0 THEN -x ELSE x

Range(s) == {s[i] : i \in DOMAIN s}

(***************************************************************************)
(* Calendar.                                                               *)
(***************************************************************************)
HoursPerDay == 24

\* pd.to_datetime('2012-10-29') and pd.to_datetime('2017-09-10'), as days
\* since the epoch.
Sandy == 15642

Irma == 17419

HurricaneDays == <<Sandy, Irma>>

\* Timestamp.normalize().date(): the calendar day a timestamp falls on.
DateOf(t) == t \div HoursPerDay

\* Series.dt.hour
HourOf(t) == t % HoursPerDay

\* Series.dt.dayofweek: Monday is 0; 1970-01-01 was a Thursday.
DayOfWeek(t) == (DateOf(t) + 3) % 7

\* The month (1..12) of a day number, by the proleptic Gregorian calendar.
MonthOf(days) ==
    LET z   == days + 719468
        era == z \div 146097
        doe == z - era * 146097
        yoe == (doe - doe \div 1460 + doe \div 36524 - doe \div 146096) \div 365
        doy == doe - (365 * yoe + yoe \div 4 - yoe \div 100)
        mp  == (5 * doy + 2) \div 153
    IN  IF mp < 10 THEN mp + 3 ELSE mp - 9

\* Series.dt.quarter
QuarterOf(t) == (MonthOf(DateOf(t)) - 1) \div 3 + 1

(***************************************************************************)
(* Tables.                                                                 *)
(***************************************************************************)
Columns(t) == DOMAIN t

NRows(t) == Len(t["ds"])

\* df[c] = v
SetCol(t, c, v) == [k \in (DOMAIN t) \cup {c} |-> IF k = c THEN v ELSE t[k]]

\* df.drop(c, axis=1)
DropCol(t, c) == [k \in (DOMAIN t) \ {c} |-> t[k]]

\* df.rename(columns={a: b})
RenameCol(t, a, b) ==
    [k \in ((DOMAIN t) \ {a}) \cup {b} |-> IF k = b THEN t[a] ELSE t[k]]

\* df[mask]: the rows of t whose mask entry is TRUE, in their order.
RowsWhere(t, mask) ==
    LET keep == SelectSeq([i \in 1..NRows(t) |-> i], LAMBDA i : mask[i])
    IN  [c \in DOMAIN t |-> [j \in 1..Len(keep) |-> t[c][keep[j]]]]

(***************************************************************************)
(* clean_train_data: the pieces of the cleaning pass.                      *)
(***************************************************************************)
\* The hurricane_dates frame: one row per anchor date.
HurricaneDates(cleaning_params) ==
    [i \in 1..Len(HurricaneDays) |->
        [holiday      |-> "hurricane",
         ds           |-> HurricaneDays[i] * HoursPerDay,
         lower_window |-> -cleaning_params.hurricane_window,
         upper_window |-> cleaning_params.hurricane_window]]

\* pd.date_range(start, end): one timestamp per day from start, none past end.
DateRange(start, end) ==
    {start + HoursPerDay * k : k \in 0..((end - start) \div HoursPerDay)}

\* The timestamps collected in hurricane_periods.
hurricane_periods(cleaning_params) ==
    UNION {DateRange(HurricaneDays[i] * HoursPerDay
                        - HoursPerDay * cleaning_params.hurricane_window,
                     HurricaneDays[i] * HoursPerDay
                        + HoursPerDay * cleaning_params.hurricane_window)
           : i \in 1..Len(HurricaneDays)}

\* df_clean['ds'].isin(hurricane_periods)
IsMasked(t, cleaning_params) == t \in hurricane_periods(cleaning_params)

\* df_clean.loc[mask, 'y'] = np.nan
MaskHurricanes(ds, y, cleaning_params) ==
    [i \in 1..Len(y) |-> IF IsMasked(ds[i], cleaning_params) THEN NaN ELSE y[i]]

\* Series.ffill(): a missing entry takes the last present value before it.
Ffill(s) ==
    LET f[i \in 0..Len(s)] ==
            IF i = 0 THEN NaN ELSE IF s[i] # NaN THEN s[i] ELSE f[i - 1]
    IN  [i \in 1..Len(s) |-> f[i]]

\* A back fill that fills nothing.
Bfill_Skipped(s) == s

\* Series.bfill(): a missing entry takes the first present value after it.
Bfill(s) ==
    LET n == Len(s)
        b[k \in 0..n] ==
            IF k = 0 THEN NaN
            ELSE IF s[n + 1 - k] # NaN THEN s[n + 1 - k] ELSE b[k - 1]
    IN  [i \in 1..n |-> b[n + 1 - i]]

Sorted(x) == SortSeq(x, LAMBDA a, b : a < b)

\* Rolling.median() of one full window: the middle value, or the mean of the
\* two middle values of a window of even width.
Median(x) ==
    LET s == Sorted(x)
        n == Len(s)
    IN  IF n % 2 = 1 THEN s[(n + 1) \div 2]
        ELSE (s[n \div 2] + s[n \div 2 + 1]) \div 2

\* np.percentile(x, q), linear interpolation between the two nearest ranks.
Percentile(x, q) ==
    LET s    == Sorted(x)
        n    == Len(s)
        pos  == q * (n - 1)
        lo   == pos \div 100
        frac == pos % 100
    IN  IF frac = 0 THEN s[lo + 1]
        ELSE s[lo + 1] + ((s[lo + 2] - s[lo + 1]) * frac) \div 100

\* lambda x: np.percentile(x, 75) - np.percentile(x, 25)
Iqr(x) == Percentile(x, 75) - Percentile(x, 25)

\* First and last row (1-based, inclusive) of the centred window of row i,
\* before it is clipped to the series.
WindowLast(i, window_size) == i + (window_size - 1) \div 2

WindowFirst(i, window_size) == WindowLast(i, window_size) - window_size + 1

\* The observations of the window of row i that lie inside the series.
Window(s, i, window_size) ==
    LET first == IF WindowFirst(i, window_size) < 1 THEN 1
                 ELSE WindowFirst(i, window_size)
        last  == IF WindowLast(i, window_size) > Len(s) THEN Len(s)
                 ELSE WindowLast(i, window_size)
    IN  SelectSeq(SubSeq(s, first, last), LAMBDA v : v # NaN)

\* Series.rolling(window=window_size, center=True): a row whose window holds
\* fewer than window_size observations (min_periods) has no statistic.
RollingMedian(s, window_size) ==
    [i \in 1..Len(s) |->
        LET x == Window(s, i, window_size)
        IN  IF Len(x) < window_size THEN NaN ELSE Median(x)]

RollingIqr(s, window_size) ==
    [i \in 1..Len(s) |->
        LET x == Window(s, i, window_size)
        IN  IF Len(x) < window_size THEN NaN ELSE Iqr(x)]

\* is_outlier with the comparisons not strict: a value on a threshold counts.
IsOutlier_NonStrict(y, rolling_median, iqr, iqr_multiplier) ==
    /\ y # NaN
    /\ rolling_median # NaN
    /\ iqr # NaN
    /\ \/ y * iqr_multiplier.den
              >= rolling_median * iqr_multiplier.den + iqr_multiplier.num * iqr
       \/ y * iqr_multiplier.den
              <= rolling_median * iqr_multiplier.den - iqr_multiplier.num * iqr

\* One entry of is_outlier.  iqr_multiplier is the rational num/den; a
\* comparison with a missing operand is False.
IsOutlier(y, rolling_median, iqr, iqr_multiplier) ==
    /\ y # NaN
    /\ rolling_median # NaN
    /\ iqr # NaN
    /\ \/ y * iqr_multiplier.den
              > rolling_median * iqr_multiplier.den + iqr_multiplier.num * iqr
       \/ y * iqr_multiplier.den
              < rolling_median * iqr_multiplier.den - iqr_multiplier.num * iqr

\* np.where with the rolling median taken for the missing rows too.
Impute_MedianForMissing(is_outlier, rolling_median, y) ==
    [i \in 1..Len(y) |->
        IF is_outlier[i] = 1 \/ y[i] = NaN THEN rolling_median[i] ELSE y[i]]

\* np.where with its two branches exchanged.
Impute_Exchanged(is_outlier, rolling_median, y) ==
    [i \in 1..Len(y) |-> IF is_outlier[i] = 1 THEN y[i] ELSE rolling_median[i]]

\* np.where(is_outlier, rolling_median, y)
Impute(is_outlier, rolling_median, y) ==
    [i \in 1..Len(y) |-> IF is_outlier[i] = 1 THEN rolling_median[i] ELSE y[i]]

\* df_clean.drop('y', axis=1).rename(columns={'y_clean': 'y'}), with the rows
\* flagged as outliers dropped as well.
Finalize_DropFlagged(t) ==
    RowsWhere(RenameCol(DropCol(t, "y"), "y_clean", "y"),
              [i \in 1..NRows(t) |-> t["is_outlier"][i] = 0])

\* df_clean.drop('y', axis=1).rename(columns={'y_clean': 'y'})
Finalize(t) == RenameCol(DropCol(t, "y"), "y_clean", "y")

\* The body of clean_train_data once cleaning_params is resolved: the table
\* returned, the window list, and the locals y (after masking) and temp_y.
Clean(cleaning_params, train_df) ==
    LET y0     == MaskHurricanes(train_df["ds"], train_df["y"], cleaning_params)
        temp_y == Bfill(Ffill(y0))
        med    == RollingMedian(temp_y, cleaning_params.window_size)
        iqr    == RollingIqr(temp_y, cleaning_params.window_size)
        flag   == [i \in 1..Len(y0) |->
                      IF IsOutlier(y0[i], med[i], iqr[i],
                                   cleaning_params.iqr_multiplier)
                      THEN 1 ELSE 0]
        yclean == Bfill(Ffill(Impute(flag, med, y0)))
        t1     == SetCol(train_df, "y", y0)
        t2     == SetCol(t1, "rolling_median", med)
        t3     == SetCol(t2, "iqr", iqr)
        t4     == SetCol(t3, "is_outlier", flag)
        t5     == SetCol(t4, "y_clean", yclean)
    IN  [df_clean        |-> Finalize(t5),
         hurricane_dates |-> HurricaneDates(cleaning_params),
         y               |-> y0,
         temp_y          |-> temp_y]

(***************************************************************************)
(* clean_train_data: resolving cleaning_params, and the call.              *)
(***************************************************************************)
ParamKeys == {"window_size", "iqr_multiplier", "hurricane_window"}

\* isinstance(trial_or_params, dict)
IsDict(trial_or_params) == trial_or_params.kind = "dict"

\* The first key the dict branch looks up and does not find, or "" if none.
MissingKey(items) ==
    IF "window_size" \notin DOMAIN items THEN "window_size"
    ELSE IF "iqr_multiplier" \notin DOMAIN items THEN "iqr_multiplier"
    ELSE IF "hurricane_window" \notin DOMAIN items THEN "hurricane_window"
    ELSE ""

\* cleaning_params built from a dict: the three keys, nothing else.
FromDict(items) ==
    [window_size      |-> items["window_size"],
     iqr_multiplier   |-> items["iqr_multiplier"],
     hurricane_window |-> items["hurricane_window"]]

\* Values a trial may answer to suggest_int / suggest_float: the two ends of
\* the range (and its middle, for the float) stand for the range.
SuggestInt(low, high) == {low, high}

SuggestFloat(low, high) ==
    {[num |-> 2 * low, den |-> 2], [num |-> low + high, den |-> 2],
     [num |-> 2 * high, den |-> 2]}

\* The trial branch with the window searched up to one week only.
TrialCalls_OneWeek ==
    <<[method |-> "suggest_int", name |-> "window_size",
       low |-> 24 * 3, high |-> 24 * 7],
      [method |-> "suggest_float", name |-> "iqr_multiplier",
       low |-> 2, high |-> 5],
      [method |-> "suggest_int", name |-> "hurricane_window",
       low |-> 2, high |-> 5]>>

\* The three calls the trial branch makes, in the order it makes them.
TrialCalls ==
    <<[method |-> "suggest_int", name |-> "window_size",
       low |-> 24 * 3, high |-> 24 * 14],
      [method |-> "suggest_float", name |-> "iqr_multiplier",
       low |-> 2, high |-> 5],
      [method |-> "suggest_int", name |-> "hurricane_window",
       low |-> 2, high |-> 5]>>

\* cleaning_params built from a trial: every struct the calls can produce.
FromTrial ==
    {[window_size      |-> ws,
      iqr_multiplier   |-> m,
      hurricane_window |-> hw] :
        ws \in SuggestInt(TrialCalls[1].low, TrialCalls[1].high),
        m  \in SuggestFloat(TrialCalls[2].low, TrialCalls[2].high),
        hw \in SuggestInt(TrialCalls[3].low, TrialCalls[3].high)}

NoRet == [none |-> TRUE]

NoLocals == [none |-> TRUE]

\* The cleaning pass proper, on the table train_df of the heap, and the
\* return: the result is a new object.
CleanAndReturn(cleaning_params, trace, train_df) ==
    \E r \in {Clean(cleaning_params, heap[train_df])} :
        /\ heap' = Append(heap, r.df_clean)
        /\ ret' = [df_clean        |-> Len(heap) + 1,
                   hurricane_dates |-> r.hurricane_dates]
        /\ locals' = [cleaning_params |-> cleaning_params,
                      y               |-> r.y,
                      temp_y          |-> r.temp_y]
        /\ calls' = trace
        /\ pc' = "returned"

\* A lookup of a key the dict lacks raises KeyError; nothing is returned.
RaiseKeyError(key) ==
    /\ pc' = "raised"
    /\ ret' = [error |-> "KeyError", key |-> key]
    /\ UNCHANGED <<heap, calls, locals>>

\* clean_train_data(trial_or_params, train_df)
CleanTrainData ==
    /\ op = "clean_train_data"
    /\ pc = "called"
    /\ IF IsDict(args.trial_or_params)
       THEN IF MissingKey(args.trial_or_params.items) = ""
            THEN CleanAndReturn(FromDict(args.trial_or_params.items), << >>, df)
            ELSE RaiseKeyError(MissingKey(args.trial_or_params.items))
       ELSE \E cleaning_params \in FromTrial :
                CleanAndReturn(cleaning_params, TrialCalls, df)
    /\ UNCHANGED <<op, df, snapshot, args>>

\* clean_train_data(cleaning_params, df_clean): the caller passes the table
\* it got back, and the struct the first pass used, to the cleaner once more
\* (the repeated cleaning of a pass that flagged nothing).
Reclean ==
    /\ op = "clean_train_data"
    /\ pc = "returned"
    /\ args.round = 1
    /\ \A i \in 1..NRows(heap[ret.df_clean]) :
           heap[ret.df_clean]["is_outlier"][i] = 0
    /\ df' = ret.df_clean
    /\ snapshot' = heap[ret.df_clean]
    /\ args' = [trial_or_params |->
                    [kind |-> "dict", items |-> locals.cleaning_params],
                round |-> 2]
    /\ CleanAndReturn(FromDict(locals.cleaning_params), << >>, ret.df_clean)
    /\ UNCHANGED op

(***************************************************************************)
(* Inputs of the cleaning pass.                                            *)
(***************************************************************************)
\* An evenly sampled series: n rows from start, step hours apart.
Timestamps(start, step, n) == [i \in 1..n |-> start + step * (i - 1)]

\* pd.read_csv gives the frame a RangeIndex: the row labels 0, 1, ...
RangeIndex(n) == [i \in 1..n |-> i - 1]

\* First timestamp and sampling interval (hours) of the series: from the day
\* before the first anchor, twice a day and daily; from a day and a half
\* before the second anchor, twice a day; and daily from 2015-01-01, far
\* from both.
Grids ==
    {<<Sandy * HoursPerDay - 24, 12>>, <<Sandy * HoursPerDay - 24, 24>>,
     <<Irma * HoursPerDay - 36, 12>>, <<16436 * HoursPerDay, 24>>}

Series ==
    UNION {{[index |-> RangeIndex(n), ds |-> Timestamps(g[1], g[2], n), y |-> y] :
                g \in Grids, y \in [1..n -> Values \cup {NaN}]} : n \in 1..MaxLen}

\* Literal parameter structs within the contract: window_size > 1,
\* iqr_multiplier > 0, hurricane_window >= 0.
WindowSizes == 2..MaxLen

IqrMultipliers ==
    {[num |-> 1, den |-> 4], [num |-> 1, den |-> 1], [num |-> 50, den |-> 1]}

HurricaneWindows == {0, 1}

ParamStructs ==
    [window_size : WindowSizes, iqr_multiplier : IqrMultipliers,
     hurricane_window : HurricaneWindows]

InitClean ==
    /\ \E t \in Series : heap = <<t>> /\ snapshot = t
    /\ df = 1
    /\ op = "clean_train_data"
    /\ pc = "called"
    /\ \E p \in ParamStructs :
           args = [trial_or_params |-> [kind |-> "dict", items |-> p],
                   round |-> 1]
    /\ ret = NoRet
    /\ calls = << >>
    /\ locals = NoLocals

NextClean == CleanTrainData \/ Reclean

SpecClean == InitClean /\ [][NextClean]_vars

(***************************************************************************)
(* clean_train_data: the dispatch on the first argument.                   *)
(***************************************************************************)
\* Two short tables, one of them over the first anchor.
DispatchTables ==
    {[index |-> RangeIndex(2), ds |-> Timestamps(g[1], g[2], 2), y |-> y] :
        g \in Grids, y \in {<<Unit, 2 * Unit>>, <<NaN, 0>>}}

\* Dicts a caller may pass: any of the three keys may be missing, and a key
\* the cleaner does not know may be present.
ParamDicts ==
    UNION {{[k \in keys |->
                CASE k = "window_size"      -> p.window_size
                  [] k = "iqr_multiplier"   -> p.iqr_multiplier
                  [] k = "hurricane_window" -> p.hurricane_window
                  [] OTHER                  -> 0] :
            p \in ParamStructs} : keys \in SUBSET (ParamKeys \cup {"seed"})}

InitDispatch ==
    /\ \E t \in DispatchTables : heap = <<t>> /\ snapshot = t
    /\ df = 1
    /\ op = "clean_train_data"
    /\ pc = "called"
    /\ \/ \E d \in ParamDicts :
              args = [trial_or_params |-> [kind |-> "dict", items |-> d],
                      round |-> 1]
       \/ args = [trial_or_params |-> [kind |-> "trial"], round |-> 1]
    /\ ret = NoRet
    /\ calls = << >>
    /\ locals = NoLocals

NextDispatch == CleanTrainData

SpecDispatch == InitDispatch /\ [][NextDispatch]_vars

(***************************************************************************)
(* create_features                                                         *)
(***************************************************************************)
\* 1000 * sin(2 * pi * h / 24) for h = 0..23, to the nearest whole number.
SinTable ==
    <<0, 259, 500, 707, 866, 966, 1000, 966, 866, 707, 500, 259,
      0, -259, -500, -707, -866, -966, -1000, -966, -866, -707, -500, -259>>

\* np.sin(2 * np.pi * hour / 24), in thousandths.
HourSin(hour) == SinTable[hour + 1]

\* np.cos(2 * np.pi * hour / 24), in thousandths: the sine a quarter turn on.
HourCos(hour) == SinTable[((hour + 6) % 24) + 1]

\* The quarters dict.
quarters ==
    <<"Q1_Jan-Mar", "Q2_Apr-Jun", "Q3_Jul-Sep", "Q4_Oct-Dec">>

\* The frame with the six feature columns assigned.
WithFeatures(t) ==
    LET n  == NRows(t)
        t1 == SetCol(t, "hour", [i \in 1..n |-> HourOf(t["ds"][i])])
        t2 == SetCol(t1, "day_of_week", [i \in 1..n |-> DayOfWeek(t["ds"][i])])
        t3 == SetCol(t2, "is_weekend",
                     [i \in 1..n |-> IF t2["day_of_week"][i] \in {5, 6}
                                     THEN 1 ELSE 0])
        t4 == SetCol(t3, "quarter",
                     [i \in 1..n |-> quarters[QuarterOf(t["ds"][i])]])
        t5 == SetCol(t4, "hour_sin", [i \in 1..n |-> HourSin(t1["hour"][i])])
    IN  SetCol(t5, "hour_cos", [i \in 1..n |-> HourCos(t1["hour"][i])])

\* create_features(df): the columns are assigned on df itself, and df itself
\* is returned.
CreateFeatures ==
    /\ op = "create_features"
    /\ pc = "called"
    /\ heap' = [heap EXCEPT ![df] = WithFeatures(heap[df])]
    /\ ret' = [df |-> df]
    /\ pc' = "returned"
    /\ UNCHANGED <<op, df, snapshot, args, calls, locals>>

(***************************************************************************)
(* split_train_test                                                        *)
(***************************************************************************)
\* The training rows taken up to and including the cutoff.
BeforeCutoff_Inclusive(t, cutoff_date) == t <= cutoff_date

\* df['ds'] < cutoff_date
BeforeCutoff(t, cutoff_date) == t < cutoff_date

\* df['ds'] >= cutoff_date
FromCutoff(t, cutoff_date) == t >= cutoff_date

\* df[df['ds'] < cutoff_date]
FullTrain(t, cutoff_date) ==
    RowsWhere(t, [i \in 1..NRows(t) |-> BeforeCutoff(t["ds"][i], cutoff_date)])

\* df[df['ds'] >= cutoff_date]
TestSet(t, cutoff_date) ==
    RowsWhere(t, [i \in 1..NRows(t) |-> FromCutoff(t["ds"][i], cutoff_date)])

\* split_train_test(df, cutoff_date): both selections are copied.
SplitTrainTest ==
    /\ op = "split_train_test"
    /\ pc = "called"
    /\ heap' = heap \o <<FullTrain(heap[df], args.cutoff_date),
                         TestSet(heap[df], args.cutoff_date)>>
    /\ ret' = [full_train |-> Len(heap) + 1, test_set |-> Len(heap) + 2]
    /\ pc' = "returned"
    /\ UNCHANGED <<op, df, snapshot, args, calls, locals>>

\* Timestamps of the tables to split: 2015-01-01 and the days after it, at
\* midnight and at noon.
SplitTimes == {16436 * HoursPerDay + 12 * k : k \in 0..3}

\* Cutoffs: before, among and after the timestamps of the tables.
Cutoffs == {16436 * HoursPerDay + 12 * k : k \in {-1, 0, 1, 2, 4}}

\* Tables to split, in any row order and with repeated timestamps.
SplitTables ==
    UNION {{[index |-> RangeIndex(n), ds |-> ds, y |-> [i \in 1..n |-> Unit]] :
                ds \in [1..n -> SplitTimes]} : n \in 0..MaxLen}

InitSplit ==
    /\ \E t \in SplitTables : heap = <<t>> /\ snapshot = t
    /\ df = 1
    /\ op = "split_train_test"
    /\ pc = "called"
    /\ \E c \in Cutoffs : args = [cutoff_date |-> c]
    /\ ret = NoRet
    /\ calls = << >>
    /\ locals = NoLocals

NextSplit == SplitTrainTest

SpecSplit == InitSplit /\ [][NextSplit]_vars

(***************************************************************************)
(* The three table operations, each called on a table of the caller.       *)
(***************************************************************************)
InitFrame ==
    /\ \E t \in DispatchTables \cup {x \in SplitTables : NRows(x) \in {1, 2}} :
           heap = <<t>> /\ snapshot = t
    /\ df = 1
    /\ pc = "called"
    /\ \/ op = "create_features" /\ args = [none |-> TRUE]
       \/ op = "split_train_test" /\ \E c \in Cutoffs : args = [cutoff_date |-> c]
       \/ /\ op = "clean_train_data"
          /\ \E p \in ParamStructs :
                 args = [trial_or_params |-> [kind |-> "dict", items |-> p],
                         round |-> 1]
    /\ ret = NoRet
    /\ calls = << >>
    /\ locals = NoLocals

NextFrame == CreateFeatures \/ SplitTrainTest \/ CleanTrainData

SpecFrame == InitFrame /\ [][NextFrame]_vars

(***************************************************************************)
(* get_MAPE.  A float is held as the fraction num/den in lowest terms with *)
(* den > 0; den = 0 holds the values that are not finite: 1/0 is inf (a    *)
(* division of a non-zero number by zero) and 0/0 is nan.                  *)
(***************************************************************************)
RECURSIVE Gcd(_, _)
Gcd(a, b) == IF b = 0 THEN a ELSE Gcd(b, a % b)

\* The float num/den.
Frac(num, den) ==
    IF den = 0 THEN [num |-> IF num = 0 THEN 0 ELSE 1, den |-> 0]
    ELSE LET g == Gcd(Abs(num), Abs(den))
             sg == IF den < 0 THEN -1 ELSE 1
         IN  [num |-> sg * (num \div g), den |-> sg * (den \div g)]

IsFinite(x) == x.den # 0

\* x + y
AddFrac(x, y) ==
    IF IsFinite(x) /\ IsFinite(y)
    THEN Frac(x.num * y.den + y.num * x.den, x.den * y.den)
    ELSE IF (~IsFinite(x) /\ x.num = 0) \/ (~IsFinite(y) /\ y.num = 0)
    THEN Frac(0, 0)
    ELSE Frac(1, 0)

\* The error taken relative to the forecast, not to the actual.
AbsPctErrors_OverPredicted(actual, predicted) ==
    [i \in 1..Len(actual) |-> Frac(Abs(actual[i] - predicted[i]), predicted[i])]

\* abs(actual - predicted) / actual, row by row.
AbsPctErrors(actual, predicted) ==
    [i \in 1..Len(actual) |-> Frac(Abs(actual[i] - predicted[i]), actual[i])]

\* ndarray.mean(): the sum of the entries over their number (nan if none).
Mean(xs) ==
    LET sum[i \in 0..Len(xs)] ==
            IF i = 0 THEN Frac(0, 1) ELSE AddFrac(sum[i - 1], xs[i])
    IN  IF IsFinite(sum[Len(xs)])
        THEN Frac(sum[Len(xs)].num, sum[Len(xs)].den * Len(xs))
        ELSE sum[Len(xs)]

\* x * 100
Times100(x) == IF IsFinite(x) THEN Frac(x.num * 100, x.den) ELSE x

\* (abs(actual - predicted) / actual).mean() * 100
Mape(actual, predicted) == Times100(Mean(AbsPctErrors(actual, predicted)))

\* abs(actual - predicted)
Residuals(actual, predicted) ==
    [i \in 1..Len(actual) |-> Abs(actual[i] - predicted[i])]

\* get_MAPE(train_set, test_set, forecast_train, forecast_test)
GetMAPE ==
    /\ op = "get_MAPE"
    /\ pc = "called"
    /\ ret' = [mape_train      |-> Mape(args.train_set["y"],
                                        args.forecast_train["yhat"]),
               mape_test       |-> Mape(args.test_set["y"],
                                        args.forecast_test["yhat"]),
               residuals_train |-> Residuals(args.train_set["y"],
                                             args.forecast_train["yhat"]),
               residuals_test  |-> Residuals(args.test_set["y"],
                                             args.forecast_test["yhat"])]
    /\ pc' = "returned"
    /\ UNCHANGED <<heap, op, df, snapshot, args, calls, locals>>

\* Actual loads (in MW, whole numbers) and forecasts of them.
Actuals == {0, 100, 200}

Forecasts == {110, 180}

\* An actual column and a forecast column of the same length.
Pairs ==
    UNION {[y : [1..n -> Actuals], yhat : [1..n -> Forecasts]] : n \in 0..MaxPairs}

InitMAPE ==
    /\ heap = << >>
    /\ snapshot = << >>
    /\ df = 0
    /\ op = "get_MAPE"
    /\ pc = "called"
    /\ \E tr \in Pairs, te \in Pairs :
           args = [train_set      |-> [y |-> tr.y],
                   forecast_train |-> [yhat |-> tr.yhat],
                   test_set       |-> [y |-> te.y],
                   forecast_test  |-> [yhat |-> te.yhat]]
    /\ ret = NoRet
    /\ calls = << >>
    /\ locals = NoLocals

NextMAPE == GetMAPE

SpecMAPE == InitMAPE /\ [][NextMAPE]_vars

(***************************************************************************)
(* Properties.                                                             *)
(***************************************************************************)
\* A call of clean_train_data has returned.
Cleaned == op = "clean_train_data" /\ pc = "returned"

\* The table passed to the call, and the table the cleaner returned.
In == heap[df]

Out == heap[ret.df_clean]

Rows == 1..NRows(In)

Flagged(i) == Out["is_outlier"][i] = 1

\* The row's value is missing once the hurricane periods are masked.
MissingAfterMask(i) == locals.y[i] = NaN

\* The row's timestamp is one the cleaner masks.
Masked(i) == IsMasked(In["ds"][i], locals.cleaning_params)

\* The row's calendar date lies within hurricane_window days of an anchor.
InHurricaneRange(i) ==
    \E k \in 1..Len(HurricaneDays) :
        /\ DateOf(In["ds"][i])
               >= HurricaneDays[k] - locals.cleaning_params.hurricane_window
        /\ DateOf(In["ds"][i])
               <= HurricaneDays[k] + locals.cleaning_params.hurricane_window

\* C1, as stated: for every non-empty sorted series and every struct with
\* window_size > 1, iqr_multiplier > 0, hurricane_window >= 0, the cleaner
\* does not raise and no value of the returned y column is missing.
C1_NoMissingEver ==
    /\ pc # "raised"
    /\ Cleaned => \A i \in Rows : Out["y"][i] # NaN

\* C1, amended: the cleaner does not raise, and no value of the returned y
\* column is missing provided at least one value is present after the
\* hurricane periods are masked; if none is, the returned y column is
\* missing throughout.
C1_NoMissingIfAnyPresent ==
    /\ pc # "raised"
    /\ (Cleaned /\ \E j \in Rows : ~MissingAfterMask(j))
           => \A i \in Rows : Out["y"][i] # NaN
    /\ (Cleaned /\ \A j \in Rows : MissingAfterMask(j))
           => \A i \in Rows : Out["y"][i] = NaN

\* C1: a series with a gap, cleaned with window_size equal to its length,
\* comes back without a gap.
C1_Witness ==
    /\ Cleaned
    /\ locals.cleaning_params.window_size = NRows(In)
    /\ \E i \in Rows : In["y"][i] = NaN
    /\ \E i \in Rows : Masked(i) /\ In["y"][i] # NaN
    /\ \A i \in Rows : Out["y"][i] # NaN

\* C2: every row whose calendar date lies within hurricane_window days of an
\* anchor date, whatever its time of day, has its value set to missing
\* before the rolling statistics and the flags are computed.
C2_WholeDaysMasked ==
    Cleaned => \A i \in Rows : InHurricaneRange(i) => MissingAfterMask(i)

\* The row a missing row is filled from: the nearest present row before it,
\* or, when there is none, the nearest present row after it; 0 if no row of
\* the series is present.
FillSource(i) ==
    LET before == {j \in Rows : j < i /\ ~MissingAfterMask(j)}
        after  == {j \in Rows : j > i /\ ~MissingAfterMask(j)}
    IN  IF before # {} THEN CHOOSE j \in before : \A k \in before : k <= j
        ELSE IF after # {} THEN CHOOSE j \in after : \A k \in after : k >= j
        ELSE 0

\* C3, as stated: a row flagged as an outlier or missing after masking ends
\* with the centred rolling median of that row wherever that median is
\* defined; any other row ends with its input value.
C3_MedianForFlaggedAndMissing ==
    Cleaned =>
        \A i \in Rows :
            IF Flagged(i) \/ MissingAfterMask(i)
            THEN Out["rolling_median"][i] # NaN
                     => Out["y"][i] = Out["rolling_median"][i]
            ELSE Out["y"][i] = In["y"][i]

\* C3, amended: a flagged row ends with the centred rolling median of that
\* row; a row present after masking and not flagged ends with its input
\* value; a row missing after masking ends with the final value of the
\* nearest present row before it, or, if there is none, of the nearest
\* present row after it (missing if the whole series is missing), whether
\* or not its rolling median is defined.
C3_MedianForFlaggedFillForMissing ==
    Cleaned =>
        \A i \in Rows :
            /\ Flagged(i) =>
                   /\ Out["rolling_median"][i] # NaN
                   /\ Out["y"][i] = Out["rolling_median"][i]
            /\ (~Flagged(i) /\ ~MissingAfterMask(i)) => Out["y"][i] = In["y"][i]
            /\ MissingAfterMask(i) =>
                   /\ ~Flagged(i)
                   /\ Out["y"][i] = IF FillSource(i) = 0 THEN NaN
                                    ELSE Out["y"][FillSource(i)]

\* C3: one pass with a flagged row replaced by its rolling median, and a
\* missing row whose rolling median is defined and which ends with the value
\* of the row before it instead.
C3_Witness ==
    /\ Cleaned
    /\ \E i \in Rows : Flagged(i) /\ Out["y"][i] # In["y"][i]
    /\ \E i \in Rows :
           /\ MissingAfterMask(i)
           /\ Out["rolling_median"][i] # NaN
           /\ Out["y"][i] # Out["rolling_median"][i]
           /\ i > 1
           /\ Out["y"][i] = Out["y"][i - 1]

HelperColumns == {"rolling_median", "iqr", "is_outlier"}

\* C4, as stated: the returned table has the rows of the input, with the
\* same timestamps in the same order, and only the value column differs.
C4_OnlyValueColumnDiffers ==
    Cleaned =>
        /\ NRows(Out) = NRows(In)
        /\ Out["ds"] = In["ds"]
        /\ Columns(Out) = Columns(In)
        /\ \A c \in Columns(In) \ {"y"} : Out[c] = In[c]

\* C4, amended: the returned table has the rows of the input, with the same
\* row labels and timestamps in the same order; every input column other
\* than y, rolling_median, iqr and is_outlier is returned unchanged; and the
\* returned table also carries the columns rolling_median, iqr and
\* is_outlier, one entry per row.
C4_SameRowsHelperColumnsAdded ==
    Cleaned =>
        /\ NRows(Out) = NRows(In)
        /\ Out["ds"] = In["ds"]
        /\ Out["index"] = In["index"]
        /\ Columns(Out) = Columns(In) \cup HelperColumns
        /\ \A c \in Columns(In) \ ({"y"} \cup HelperColumns) : Out[c] = In[c]
        /\ \A c \in Columns(Out) : Len(Out[c]) = NRows(In)

\* C4: a pass that flagged a row and masked another returns them all.
C4_Witness ==
    /\ Cleaned
    /\ NRows(In) >= 3
    /\ \E i \in Rows : Flagged(i)
    /\ \E i \in Rows : Masked(i)
    /\ Columns(In) = {"index", "ds", "y"}
    /\ NRows(Out) = NRows(In)

\* No row of the returned table is flagged.
NoneFlagged == \A i \in Rows : ~Flagged(i)

\* C5, as stated: when no point is flagged, every output value of a row
\* that is not hurricane-masked equals its input value, and cleaning the
\* output again changes no value of such a row.
C5_UnmaskedRowsUnchanged ==
    (Cleaned /\ (args.round = 2 \/ NoneFlagged)) =>
        \A i \in Rows : ~Masked(i) => Out["y"][i] = In["y"][i]

\* C5, amended: when no point is flagged, every output value of a row that
\* is not hurricane-masked and whose input value is present equals its
\* input value; and if the input has no missing value, cleaning the output
\* again with the same parameters changes no value at all.
C5_PresentUnmaskedRowsUnchanged ==
    /\ (Cleaned /\ NoneFlagged) =>
           \A i \in Rows :
               (~Masked(i) /\ In["y"][i] # NaN) => Out["y"][i] = In["y"][i]
    /\ (Cleaned /\ args.round = 2 /\ \A i \in Rows : heap[1]["y"][i] # NaN) =>
           Out["y"] = In["y"]

\* C5: a second pass over the output of a pass that flagged nothing, the
\* input having had a masked row and a row that deviates from the others.
C5_Witness ==
    /\ Cleaned
    /\ args.round = 2
    /\ \A i \in Rows : heap[1]["y"][i] # NaN
    /\ \E i \in Rows : Masked(i) /\ heap[1]["y"][i] # In["y"][i]
    /\ \E i, j \in Rows : In["y"][i] # In["y"][j]
    /\ \E i \in Rows : Out["rolling_median"][i] # NaN

\* A call of split_train_test has returned.
Split == op = "split_train_test" /\ pc = "returned"

Train == heap[ret.full_train]

Test == heap[ret.test_set]

\* The rows of part are rows of the input, taken in the input's order: the
\* row labels ascend, and every column agrees with the input at that label.
InInputOrder(part) ==
    /\ \A j \in 1..NRows(part) :
           \A c \in Columns(In) : part[c][j] = In[c][part["index"][j] + 1]
    /\ \A j, k \in 1..NRows(part) : j < k => part["index"][j] < part["index"][k]

\* C6: the training set holds exactly the rows with ds < cutoff and the test
\* set exactly the rows with ds >= cutoff; the two are disjoint and together
\* hold every input row exactly once, in the input order.
C6_SplitPartitionsRows ==
    Split =>
        /\ Columns(Train) = Columns(In) /\ Columns(Test) = Columns(In)
        /\ \A j \in 1..NRows(Train) : Train["ds"][j] < args.cutoff_date
        /\ \A j \in 1..NRows(Test) : Test["ds"][j] >= args.cutoff_date
        /\ \A i \in Rows :
               /\ In["ds"][i] < args.cutoff_date
                      => In["index"][i] \in Range(Train["index"])
               /\ In["ds"][i] >= args.cutoff_date
                      => In["index"][i] \in Range(Test["index"])
        /\ Range(Train["index"]) \cap Range(Test["index"]) = {}
        /\ NRows(Train) + NRows(Test) = NRows(In)
        /\ InInputOrder(Train)
        /\ InInputOrder(Test)

\* C6: a table that is not in time order, with a row exactly at the cutoff,
\* split into two non-empty parts.
C6_Witness ==
    /\ Split
    /\ NRows(Train) >= 1
    /\ NRows(Test) >= 2
    /\ \E i \in Rows : In["ds"][i] = args.cutoff_date
    /\ \E i, j \in Rows : i < j /\ In["ds"][i] > In["ds"][j]

\* The objects a call returned.
Returned ==
    CASE op = "create_features"  -> {ret.df}
      [] op = "split_train_test" -> {ret.full_train, ret.test_set}
      [] op = "clean_train_data" -> {ret.df_clean}
      [] OTHER                   -> {}

\* C7: after create_features, split_train_test or clean_train_data returns,
\* the table the caller passed in is as it was before the call, and what is
\* returned is not the caller's own object.
C7_InputUntouched ==
    pc = "returned" => (heap[df] = snapshot /\ df \notin Returned)

\* get_MAPE has returned.
Scored == op = "get_MAPE" /\ pc = "returned"

\* The product of the entries of a, the entry at position skip left out.
ProductBut(a, skip) ==
    LET prod[i \in 0..Len(a)] ==
            IF i = 0 THEN 1
            ELSE IF i = skip THEN prod[i - 1] ELSE prod[i - 1] * a[i]
    IN  prod[Len(a)]

\* The sum over the rows of |a - p| / a, times the product of all of a.
SumOverCommonDenominator(a, p) ==
    LET sum[i \in 0..Len(a)] ==
            IF i = 0 THEN 0
            ELSE sum[i - 1] + Abs(a[i] - p[i]) * ProductBut(a, i)
    IN  sum[Len(a)]

\* mape is the mean over the rows of |a - p| / a, times 100 (where every
\* actual is non-zero and there is a row), and res the |a - p| row by row.
IsMapeOf(mape, res, a, p) ==
    /\ Len(res) = Len(a)
    /\ \A i \in 1..Len(a) :
           res[i] >= 0 /\ (res[i] = a[i] - p[i] \/ res[i] = p[i] - a[i])
    /\ (Len(a) > 0 /\ \A i \in 1..Len(a) : a[i] # 0) =>
           /\ mape.den > 0
           /\ mape = Frac(100 * SumOverCommonDenominator(a, p),
                          Len(a) * ProductBut(a, 0))

GivenDict == IsDict(args.trial_or_params)

GivenKeys == DOMAIN args.trial_or_params.items

\* C9: given a dict, the cleaner uses exactly its window_size,
\* iqr_multiplier and hurricane_window and calls no suggestion method, and a
\* missing key fails with a lookup error before any cleaning; given anything
\* else it makes exactly the calls suggest_int('window_size', 72, 336),
\* suggest_float('iqr_multiplier', 2.0, 5.0) and
\* suggest_int('hurricane_window', 2, 5); either way the window list has one
\* entry per anchor date, with lower_window = -hurricane_window and
\* upper_window = +hurricane_window of the resolved struct.
C9_DispatchOnFirstArgument ==
    (op = "clean_train_data" /\ pc # "called") =>
        /\ (GivenDict /\ ParamKeys \subseteq GivenKeys) =>
               /\ pc = "returned"
               /\ calls = << >>
               /\ \A k \in ParamKeys :
                      locals.cleaning_params[k] = args.trial_or_params.items[k]
        /\ (GivenDict /\ ~(ParamKeys \subseteq GivenKeys)) =>
               /\ pc = "raised"
               /\ ret.error = "KeyError"
               /\ ret.key \in ParamKeys \ GivenKeys
               /\ calls = << >>
               /\ heap = <<snapshot>>
               /\ locals = NoLocals
        /\ ~GivenDict =>
               /\ pc = "returned"
               /\ Len(calls) = 3
               /\ calls[1] = [method |-> "suggest_int", name |-> "window_size",
                              low |-> 72, high |-> 336]
               /\ calls[2] = [method |-> "suggest_float",
                              name |-> "iqr_multiplier", low |-> 2, high |-> 5]
               /\ calls[3] = [method |-> "suggest_int",
                              name |-> "hurricane_window", low |-> 2, high |-> 5]
               /\ locals.cleaning_params.window_size \in 72..336
               /\ locals.cleaning_params.hurricane_window \in 2..5
        /\ pc = "returned" =>
               /\ DOMAIN locals.cleaning_params = ParamKeys
               /\ Len(ret.hurricane_dates) = 2
               /\ ret.hurricane_dates[1].ds = Sandy * HoursPerDay
               /\ ret.hurricane_dates[2].ds = Irma * HoursPerDay
               /\ \A i \in 1..2 :
                      /\ ret.hurricane_dates[i].lower_window
                             = -locals.cleaning_params.hurricane_window
                      /\ ret.hurricane_dates[i].upper_window
                             = locals.cleaning_params.hurricane_window

\* C9: a trial was given, the three calls were made, and the window list
\* carries the suggested hurricane_window.
C9_Witness ==
    /\ op = "clean_train_data"
    /\ pc = "returned"
    /\ ~GivenDict
    /\ Len(calls) = 3
    /\ locals.cleaning_params.hurricane_window = 5
    /\ ret.hurricane_dates[1].lower_window = -5

\* The distance of the row's value from its rolling median, and the
\* threshold iqr_multiplier * iqr, both times the multiplier's denominator.
Deviation(i) ==
    Abs(locals.y[i] - Out["rolling_median"][i])
        * locals.cleaning_params.iqr_multiplier.den

Threshold(i) == locals.cleaning_params.iqr_multiplier.num * Out["iqr"][i]

\* The row has rolling statistics.
HasStatistics(i) == Out["rolling_median"][i] # NaN /\ Out["iqr"][i] # NaN

\* The row is so near an end of the series that its window does not fit.
NearBoundary(i) ==
    \/ i <= locals.cleaning_params.window_size \div 2
    \/ i > NRows(In) - (locals.cleaning_params.window_size - 1) \div 2

\* C10: a row is flagged if and only if its value is present after masking
\* and lies strictly beyond rolling_median +/- iqr_multiplier * iqr; a value
\* on a threshold is not flagged, a masked or missing row is never flagged,
\* and a row whose rolling statistics are undefined is never flagged.
C10_FlaggedIffStrictlyBeyond ==
    Cleaned =>
        \A i \in Rows :
            /\ Out["is_outlier"][i] \in {0, 1}
            /\ Flagged(i) <=>
                   /\ ~MissingAfterMask(i)
                   /\ HasStatistics(i)
                   /\ Deviation(i) > Threshold(i)
            /\ Masked(i) => MissingAfterMask(i) /\ ~Flagged(i)
            /\ NearBoundary(i) => ~HasStatistics(i) /\ ~Flagged(i)

\* C10: a value exactly on the threshold, away from the median, that is not
\* flagged, next to a masked row.
C10_Witness ==
    /\ Cleaned
    /\ \E i \in Rows :
           /\ ~MissingAfterMask(i)
           /\ HasStatistics(i)
           /\ Deviation(i) = Threshold(i)
           /\ Deviation(i) > 0
           /\ ~Flagged(i)
    /\ \E i \in Rows : Masked(i) /\ In["y"][i] # NaN

====
